---- MODULE Spec2Model ----
(***************************************************************************)
(* LearningHubAgent (src/src/Generator/llm.py): the four-stage course      *)
(* pipeline process_query = generate_headlines; web_search;                *)
(* retrieve_images; generate_course_content, with the language model and   *)
(* the search backend as nondeterministic collaborators.                   *)
(*                                                                         *)
(* Python str values that are cut, searched or rewritten are sequences of  *)
(* one-character strings.  The text of the outline response is a sequence  *)
(* of tokens: Ch(c) is the character c, Doc(v) is the text of one JSON     *)
(* document that decodes to v and holds no backtick (so no separator of    *)
(* split can match inside it and json.loads takes it as a unit).           *)
(***************************************************************************)
EXTENDS Integers, Sequences, FiniteSets, TLC

VARIABLES
    pc,               \* position of the running call
    entry,            \* the method the caller invoked
    query,            \* the query argument
    response,         \* response.text of generate_headlines
    headlines,        \* the outline: process_query's headlines
    printed,          \* what generate_headlines printed about validation
    search_results,   \* web_search's local search_results
    unique_results,   \* what web_search returned
    main_images,      \* retrieve_images's local main_images
    images,           \* what retrieve_images returned (images_data)
    content_response, \* response.text of generate_course_content
    course_content,   \* what generate_course_content returned
    output,           \* what process_query returned
    error,            \* the exception that left the entry method, if any
    i,                \* index of the topic loop in progress
    calls,            \* every call the collaborators received, in order
    text_batches,     \* what each ddgs.text call returned, in order
    image_batches,    \* what each ddgs.images call returned, in order
    returned          \* the stage methods that have returned, in order

vars ==
    <<pc, entry, query, response, headlines, printed, search_results,
      unique_results, main_images, images, content_response, course_content,
      output, error, i, calls, text_batches, image_batches, returned>>

(***************************************************************************)
(* Bounds of the model.                                                    *)
(***************************************************************************)
MaxTopics == 4
MaxPieces == 4
MaxBatch == 6
MaxContentPieces == 2
MaxRawImages == 3
MaxImageRecords == 1

(***************************************************************************)
(* Program constants.                                                      *)
(***************************************************************************)
MainTextResults == 5
TopicTextResults == 2
TextTopics == 3
EvidenceLimit == 10
MainImageResults == 2
TopicImageResults == 1
ImageTopics == 2
ImageLimit == 4

(***************************************************************************)
(* Python values.                                                          *)
(***************************************************************************)
None == [None |-> TRUE]
\* A decoded JSON array: a list, which has no .get.
PyList == [list |-> <<>>]
NoError == "none"

IsDict(v) == "list" \notin DOMAIN v /\ "None" \notin DOMAIN v

\* d.get(k, default)
Get(d, k, default) == IF k \in DOMAIN d THEN d[k] ELSE default

Min(a, b) == IF a < b THEN a ELSE b

\* s[:n]
Take(s, n) == SubSeq(s, 1, Min(n, Len(s)))

RECURSIVE Flatten(_)
\* The concatenation of a sequence of sequences.
Flatten(ss) == IF ss = <<>> THEN <<>> ELSE Head(ss) \o Flatten(Tail(ss))

(***************************************************************************)
(* str operations.                                                         *)
(***************************************************************************)
\* sub in s
Contains(s, sub) ==
    \E k \in 0..(Len(s) - Len(sub)) : SubSeq(s, k + 1, k + Len(sub)) = sub

\* s.find(sub) + 1, and 0 when sub is not in s
Find(s, sub) ==
    IF Contains(s, sub)
    THEN CHOOSE k \in 1..Len(s) :
            /\ k + Len(sub) - 1 <= Len(s)
            /\ SubSeq(s, k, k + Len(sub) - 1) = sub
            /\ \A m \in 1..(k - 1) : SubSeq(s, m, m + Len(sub) - 1) # sub
    ELSE 0

RECURSIVE Split(_, _)
\* s.split(sep)
Split(s, sep) ==
    LET k == Find(s, sep)
    IN  IF k = 0
        THEN <<s>>
        ELSE <<SubSeq(s, 1, k - 1)>> \o Split(SubSeq(s, k + Len(sep), Len(s)), sep)

\* s.replace(old, new, 1): the first occurrence only
ReplaceFirst(s, old, new) ==
    LET k == Find(s, old)
    IN  IF k = 0
        THEN s
        ELSE SubSeq(s, 1, k - 1) \o new \o SubSeq(s, k + Len(old), Len(s))

RECURSIVE Replace(_, _, _)
\* s.replace(old, new): every non-overlapping occurrence, left to right
Replace(s, old, new) ==
    LET k == Find(s, old)
    IN  IF k = 0
        THEN s
        ELSE SubSeq(s, 1, k - 1) \o new
                \o Replace(SubSeq(s, k + Len(old), Len(s)), old, new)

DigitChars == <<"0", "1", "2", "3", "4", "5", "6", "7", "8", "9">>

RECURSIVE Str(_)
\* str(n) of a natural number, as the f-string renders it
Str(n) ==
    IF n < 10
    THEN <<DigitChars[n + 1]>>
    ELSE Str(n \div 10) \o <<DigitChars[(n % 10) + 1]>>

(***************************************************************************)
(* Tokens of the outline response and json.loads.                          *)
(***************************************************************************)
Ch(c) == [ch |-> c]
Doc(v) == [doc |-> v]

IsSpace(t) == t = Ch(" ")

RECURSIVE LStrip(_)
LStrip(s) == IF s # <<>> /\ IsSpace(Head(s)) THEN LStrip(Tail(s)) ELSE s

RECURSIVE RStrip(_)
RStrip(s) ==
    IF s # <<>> /\ IsSpace(s[Len(s)]) THEN RStrip(SubSeq(s, 1, Len(s) - 1)) ELSE s

\* s.strip()
Strip(s) == RStrip(LStrip(s))

\* json.loads(s): the decoded value, or JSONDecodeError (ok = FALSE).
\* Whitespace around the document is skipped; anything else beside it, or no
\* document at all, is an error.
JsonLoads(s) ==
    LET t == Strip(s)
    IN  IF Len(t) = 1 /\ "doc" \in DOMAIN t[1]
        THEN [ok |-> TRUE, value |-> t[1].doc]
        ELSE [ok |-> FALSE, value |-> None]

\* The backtick character (the lexer takes no backtick inside a string).
Backtick == Ch("backtick")
Fence == <<Backtick, Backtick, Backtick>>
JsonFence == Fence \o <<Ch("j"), Ch("s"), Ch("o"), Ch("n")>>

\* text.split(JsonFence)[1].split(Fence)[0].strip()
JsonBlock(text) == Strip(Split(Split(text, JsonFence)[2], Fence)[1])

\* text.split(Fence)[1].split(Fence)[0].strip()
AnyBlock(text) == Strip(Split(Split(text, Fence)[2], Fence)[1])

\* The except branch with the two fence tests in the other order.
ExtractJsonAnyFenceFirst(text) ==
    IF Contains(text, Fence)
    THEN AnyBlock(text)
    ELSE IF Contains(text, JsonFence)
         THEN JsonBlock(text)
         ELSE text

\* The except branch of the parse: the one string chosen for the second
\* json.loads.
ExtractJson(text) ==
    IF Contains(text, JsonFence)
    THEN JsonBlock(text)
    ELSE IF Contains(text, Fence)
         THEN AnyBlock(text)
         ELSE text

\* The try/except around json.loads in generate_headlines: the value of
\* json_data, or the JSONDecodeError of the second json.loads.
ParseResponse(text) ==
    IF JsonLoads(text).ok THEN JsonLoads(text) ELSE JsonLoads(ExtractJson(text))

(***************************************************************************)
(* The outline schema and jsonschema.validate.                             *)
(***************************************************************************)
TopicConforms(t) == {"headline", "subtopics"} \subseteq DOMAIN t

\* jsonschema.validate(instance, schema) raises no ValidationError
Conforms(v) ==
    /\ IsDict(v)
    /\ {"main_headline", "topics"} \subseteq DOMAIN v
    /\ \A k \in DOMAIN v.topics : TopicConforms(v.topics[k])

\* The validation is only reported, by one of the two prints.
ValidationPrint(v) ==
    IF Conforms(v) THEN "JSON validation successful!" ELSE "JSON validation error"

(***************************************************************************)
(* String constants of the f-strings.                                      *)
(***************************************************************************)
Space == <<" ">>
DiagramEducational ==
    <<" ", "d", "i", "a", "g", "r", "a", "m", " ", "e", "d", "u", "c", "a", "t", "i", "o", "n", "a", "l">>
Illustration ==
    <<" ", "i", "l", "l", "u", "s", "t", "r", "a", "t", "i", "o", "n">>
ImageRelatedTo ==
    <<"I", "m", "a", "g", "e", " ", "r", "e", "l", "a", "t", "e", "d", " ", "t", "o", " ">>
PlaceholderOpen ==
    <<"!", "[", "I", "M", "A", "G", "E", " ">>
PlaceholderMiddle ==
    <<"]", "(", "i", "m", "a", "g", "e", "_", "u", "r", "l", "_">>
BangBracket == <<"!", "[">>
BracketParen == <<"]", "(">>
CloseParen == <<")">>

\* f"![IMAGE {img_id}](image_url_{img_id})"
ImgPlaceholder(img_id) ==
    PlaceholderOpen \o Str(img_id) \o PlaceholderMiddle \o Str(img_id) \o CloseParen

\* f"![{img.get('title')}]({img_url})"
ImgMarkdown(title, img_url) ==
    BangBracket \o title \o BracketParen \o img_url \o CloseParen

(***************************************************************************)
(* web_search: deduplication and the limit.                                *)
(***************************************************************************)
RECURSIVE DedupeLoop(_, _, _)
\* The loop over search_results with seen_urls and unique_results.
DedupeLoop(results, seen_urls, acc) ==
    IF results = <<>>
    THEN acc
    ELSE LET result == Head(results)
         IN  IF result.href \notin seen_urls
             THEN DedupeLoop(Tail(results), seen_urls \cup {result.href},
                             Append(acc, result))
             ELSE DedupeLoop(Tail(results), seen_urls, acc)

\* The cut taken before the deduplication instead of after it.
UniqueResultsCutFirst(results) ==
    DedupeLoop(Take(results, EvidenceLimit), {}, <<>>)

\* unique_results[:10] after the deduplication loop
UniqueResults(results) == Take(DedupeLoop(results, {}, <<>>), EvidenceLimit)

\* The topic list without the slice.
TextTopicListUncut(h) == Get(h, "topics", <<>>)

\* headlines.get("topics", [])[:3] of web_search
TextTopicList(h) == Take(Get(h, "topics", <<>>), TextTopics)

\* f"{query} {headline}"
SpecificQuery(q, topic) == q \o Space \o Get(topic, "headline", <<>>)

(***************************************************************************)
(* retrieve_images: the projection of the raw results.                     *)
(***************************************************************************)
\* headlines.get("topics", [])[:2] of retrieve_images
ImageTopicList(h) == Take(Get(h, "topics", <<>>), ImageTopics)

\* f"{headlines["main_headline"]} diagram educational"
MainImageQuery(h) == h["main_headline"] \o DiagramEducational

\* f"{headline} {query} illustration"
TopicImageQuery(q, topic) ==
    Get(topic, "headline", <<>>) \o Space \o q \o Illustration

\* image_data with the id left at the index of enumerate.
ImageDataFromZero(idx, img, q) ==
    [id |-> idx,
     url |-> img.image,
     title |-> Get(img, "title", ImageRelatedTo \o q),
     source |-> Get(img, "url", <<>>)]

\* image_data of the enumerate loop, idx counting from 0
ImageData(idx, img, q) ==
    [id |-> idx + 1,
     url |-> img.image,
     title |-> Get(img, "title", ImageRelatedTo \o q),
     source |-> Get(img, "url", <<>>)]

\* images_data: the loop over main_images[:4]
ProcessImages(raw, q) ==
    LET firsts == Take(raw, ImageLimit)
    IN  [k \in 1..Len(firsts) |-> ImageData(k - 1, firsts[k], q)]

(***************************************************************************)
(* generate_course_content: the prompt parts and the substitution.         *)
(***************************************************************************)
\* headlines_content, line by line
HeadlinesContent(q, h) ==
    LET topics == Get(h, "topics", <<>>)
    IN  [title |-> Get(h, "main_headline", q),
         topics |->
            [k \in 1..Len(topics) |->
                [number |-> k,
                 headline |-> Get(topics[k], "headline", <<>>),
                 subtopics |-> Get(topics[k], "subtopics", <<>>)]]]

\* search_content, source by source
SearchContent(results) ==
    [k \in 1..Len(results) |->
        [number |-> k,
         title |-> Get(results[k], "title", "No Title"),
         body |-> Get(results[k], "body", <<>>),
         href |-> Get(results[k], "href", 0)]]

\* image_content, image by image
ImageContent(imgs) ==
    [k \in 1..Len(imgs) |->
        [id |-> imgs[k].id, title |-> imgs[k].title, source |-> imgs[k].source]]

CoursePrompt(q, h, results, imgs) ==
    [kind |-> "course",
     query |-> q,
     headlines_content |-> HeadlinesContent(q, h),
     search_content |-> SearchContent(results),
     image_content |-> ImageContent(imgs)]

SyllabusPrompt(q) == [kind |-> "syllabus", query |-> q]

RECURSIVE ReplaceIds(_, _, _)
ReplaceIds(content, ids, new) ==
    IF ids = <<>>
    THEN content
    ELSE ReplaceIds(Replace(content, ImgPlaceholder(Head(ids)), new), Tail(ids), new)

\* One pass that takes the placeholder of any id for the image's own.
ReplaceOneAnyId(content, img) ==
    ReplaceIds(content, <<1, 2, 3, 4, 5, 6, 7, 8, 9>>,
               ImgMarkdown(img.title, img.url))

\* One pass of the substitution loop: the placeholder of img, everywhere.
ReplaceOne(content, img) ==
    Replace(content, ImgPlaceholder(img.id), ImgMarkdown(img.title, img.url))

RECURSIVE ReplaceImages(_, _)
\* The loop "for img in images" over course_content.
ReplaceImages(content, imgs) ==
    IF imgs = <<>>
    THEN content
    ELSE ReplaceImages(ReplaceOne(content, Head(imgs)), Tail(imgs))

(***************************************************************************)
(* The arguments and the collaborators' answers the model draws from.      *)
(* A run of process_query draws from small sets; a direct call of one      *)
(* method draws from wide ones.                                            *)
(***************************************************************************)
SeqsUpTo(S, n) == UNION {[1..k -> S] : k \in 0..n}

Queries == {<<"A", "I">>, <<"m">>}

TopicHeadline(k) == <<"T">> \o Str(k)

\* Topic k of an outline: complete (shape 0), or with fields absent (shape 1:
\* no subtopics, no headline, neither, complete, in turn).
TopicOf(shape, k) ==
    LET present ==
            IF shape = 0 THEN {"headline", "subtopics"}
            ELSE IF k % 4 = 1 THEN {"headline"}
            ELSE IF k % 4 = 2 THEN {"subtopics"}
            ELSE IF k % 4 = 3 THEN {}
            ELSE {"headline", "subtopics"}
    IN  [f \in present |->
            IF f = "headline" THEN TopicHeadline(k) ELSE <<<<"s">>, <<"t">>>>]

\* A decoded JSON object with main_headline and topics present or absent.
OutlineOf(hasMain, hasTopics, n, shape) ==
    [f \in (IF hasMain THEN {"main_headline"} ELSE {})
            \cup (IF hasTopics THEN {"topics"} ELSE {}) |->
        IF f = "main_headline"
        THEN <<"M">>
        ELSE [k \in 1..n |-> TopicOf(shape, k)]]

Outlines ==
    {OutlineOf(hasMain, hasTopics, n, shape) :
        hasMain \in BOOLEAN, hasTopics \in BOOLEAN,
        n \in 0..MaxTopics, shape \in {0, 1}}

\* What the model may answer to the syllabus prompt.
OutlinePieces ==
    {Fence, <<Ch("j"), Ch("s"), Ch("o"), Ch("n")>>, <<Ch(" ")>>, <<Ch("x")>>,
     <<Doc(OutlineOf(TRUE, TRUE, 1, 0))>>, <<Doc(OutlineOf(FALSE, TRUE, 1, 1))>>}

ResponseTexts ==
    IF entry = "process_query"
    THEN {<<Doc(v)>> : v \in Outlines \cup {PyList}}
            \cup {JsonFence \o <<Ch(" "), Doc(v), Ch(" ")>> \o Fence :
                    v \in {OutlineOf(TRUE, TRUE, MaxTopics, 1)}}
            \cup {<<Ch("x")>>}
    ELSE {Flatten(ps) : ps \in SeqsUpTo(OutlinePieces, MaxPieces)}

\* A batch of n text results of call number c, with hrefs first, first + 1, ...
TextBatch(c, first, n) ==
    [p \in 1..n |-> [href |-> first + p - 1, body |-> <<c, p>>]]

\* Two results of one batch with the same href.
Doubled(c, first) ==
    <<[href |-> first, body |-> <<c, 1>>], [href |-> first, body |-> <<c, 2>>]>>

\* What ddgs.text may answer to call number c (the collaborator is not held
\* to max_results).
TextBatches(c) ==
    IF entry = "process_query"
    THEN {TextBatch(c, 1, 2), TextBatch(c, 2, 1)}
    ELSE {TextBatch(c, first, n) : first \in {1, 5, 9}, n \in {0, MaxBatch}}
            \cup {Doubled(c, 1)}

\* Raw image p of a batch: with title and page url, or with neither.
RawImage(p, shape) ==
    IF (p + shape) % 2 = 0
    THEN [image |-> <<"u">> \o Str(p), title |-> <<"t">> \o Str(p), url |-> <<"w">>]
    ELSE [image |-> <<"u">> \o Str(p)]

ImageBatch(n, shape) == [p \in 1..n |-> RawImage(p, shape)]

\* What ddgs.images may answer (not held to max_results either).
ImageBatches ==
    IF entry = "process_query"
    THEN {ImageBatch(1, 0), ImageBatch(2, 1)}
    ELSE {ImageBatch(n, shape) : n \in 0..MaxRawImages, shape \in {0, 1}}

\* A marker whose two ids differ: no placeholder of any id.
Mismatch ==
    PlaceholderOpen \o Str(1) \o PlaceholderMiddle \o Str(2) \o CloseParen

ContentPieces ==
    {<<"a">>, ImgPlaceholder(1), ImgPlaceholder(2), ImgPlaceholder(3), Mismatch}

\* What the model may answer to the course prompt.
ContentTexts ==
    IF entry = "process_query"
    THEN {<<"o", "k">>,
          ImgPlaceholder(1) \o <<"a">> \o ImgPlaceholder(1) \o ImgPlaceholder(2)
            \o ImgPlaceholder(9)}
    ELSE {Flatten(ps) : ps \in SeqsUpTo(ContentPieces, MaxContentPieces)}

Titles ==
    {<<"C">>,
     <<"I", "M", "A", "G", "E", " ", "1">>}

Urls ==
    {<<"u">>,
     <<"i", "m", "a", "g", "e", "_", "u", "r", "l", "_", "1">>,
     <<"!", "[", "I", "M", "A", "G", "E", " ", "1", "]", "(", "i", "m", "a", "g", "e", "_", "u", "r", "l", "_", "1">>}

\* The ImageRecords a direct caller of generate_course_content may pass.
ImageRecords ==
    {[id |-> id, url |-> url, title |-> title, source |-> <<>>] :
        id \in {1, 2}, title \in Titles, url \in Urls}

(***************************************************************************)
(* Control: process_query calls the four methods in turn; an exception     *)
(* leaves the entry method.                                                *)
(***************************************************************************)
\* process_query without its third step.
NextStageSkipImages(fn) ==
    CASE fn = "generate_headlines" -> "web_search"
      [] fn = "web_search" -> "generate_course_content"
      [] fn = "retrieve_images" -> "generate_course_content"
      [] fn = "generate_course_content" -> "assemble_output"

\* The statement of process_query that follows the return of method fn.
NextStage(fn) ==
    CASE fn = "generate_headlines" -> "web_search"
      [] fn = "web_search" -> "retrieve_images"
      [] fn = "retrieve_images" -> "generate_course_content"
      [] fn = "generate_course_content" -> "assemble_output"

AfterReturn(fn) == IF entry = "process_query" THEN NextStage(fn) ELSE "RETURNED"

\* An exception nothing catches.
Raise(e) == pc' = "FAILED" /\ error' = e

Return(fn) ==
    /\ pc' = AfterReturn(fn)
    /\ returned' = Append(returned, fn)
    /\ error' = error

TextCall(q, n, outcome) ==
    [api |-> "text", query |-> q, max_results |-> n, outcome |-> outcome]

ImagesCall(q, n, outcome) ==
    [api |-> "images", query |-> q, max_results |-> n, outcome |-> outcome]

GenerateCall(prompt, outcome) ==
    [api |-> "generate_content", prompt |-> prompt, outcome |-> outcome]

(***************************************************************************)
(* generate_headlines.                                                     *)
(***************************************************************************)
\* generate_headlines with the validation as a hard gate: the
\* ValidationError is not caught.
GenerateHeadlinesStrict ==
    /\ pc = "generate_headlines"
    /\ \E text \in ResponseTexts :
        LET parsed == ParseResponse(text)
        IN  /\ calls' = Append(calls, GenerateCall(SyllabusPrompt(query), "ok"))
            /\ response' = text
            /\ IF parsed.ok /\ Conforms(parsed.value)
               THEN /\ headlines' = parsed.value
                    /\ printed' = Append(printed, ValidationPrint(parsed.value))
                    /\ Return("generate_headlines")
               ELSE /\ Raise(IF parsed.ok THEN "ValidationError"
                             ELSE "JSONDecodeError")
                    /\ UNCHANGED <<headlines, printed, returned>>
    /\ UNCHANGED <<entry, query, search_results, unique_results, main_images,
                   images, content_response, course_content, output, i,
                   text_batches, image_batches>>

\* The model answers; the answer is parsed, validated and returned, or the
\* second json.loads raises.
GenerateHeadlines ==
    /\ pc = "generate_headlines"
    /\ \E text \in ResponseTexts :
        LET parsed == ParseResponse(text)
        IN  /\ calls' = Append(calls, GenerateCall(SyllabusPrompt(query), "ok"))
            /\ response' = text
            /\ IF parsed.ok
               THEN /\ headlines' = parsed.value
                    /\ printed' = Append(printed, ValidationPrint(parsed.value))
                    /\ Return("generate_headlines")
               ELSE /\ Raise("JSONDecodeError")
                    /\ UNCHANGED <<headlines, printed, returned>>
    /\ UNCHANGED <<entry, query, search_results, unique_results, main_images,
                   images, content_response, course_content, output, i,
                   text_batches, image_batches>>

\* model.generate_content raises, in generate_headlines or in
\* generate_course_content.
ModelFails ==
    /\ pc \in {"generate_headlines", "generate_course_content"}
    /\ calls' =
        Append(calls,
               GenerateCall(IF pc = "generate_headlines"
                            THEN SyllabusPrompt(query)
                            ELSE CoursePrompt(query, headlines, unique_results,
                                              images),
                            "ModelBackendError"))
    /\ Raise("ModelBackendError")
    /\ UNCHANGED <<entry, query, response, headlines, printed, search_results,
                   unique_results, main_images, images, content_response,
                   course_content, output, i, text_batches, image_batches,
                   returned>>

(***************************************************************************)
(* web_search.                                                             *)
(***************************************************************************)
\* The search for the query itself; then the topic loop is entered, which
\* needs headlines.get.
TextSearchMain ==
    /\ pc = "web_search"
    /\ \E batch \in TextBatches(1) :
        /\ calls' = Append(calls, TextCall(query, MainTextResults, "ok"))
        /\ text_batches' = Append(text_batches, batch)
        /\ search_results' = batch
    /\ IF IsDict(headlines)
       THEN pc' = "web_search_topics" /\ i' = 1 /\ error' = error
       ELSE Raise("AttributeError") /\ i' = i
    /\ UNCHANGED <<entry, query, response, headlines, printed, unique_results,
                   main_images, images, content_response, course_content,
                   output, image_batches, returned>>

\* One turn of the loop over the first topics.
TextSearchTopic ==
    /\ pc = "web_search_topics"
    /\ i <= Len(TextTopicList(headlines))
    /\ \E batch \in TextBatches(i + 1) :
        /\ calls' =
            Append(calls,
                   TextCall(SpecificQuery(query, TextTopicList(headlines)[i]),
                            TopicTextResults, "ok"))
        /\ text_batches' = Append(text_batches, batch)
        /\ search_results' = search_results \o batch
    /\ i' = i + 1
    /\ UNCHANGED <<pc, entry, query, response, headlines, printed,
                   unique_results, main_images, images, content_response,
                   course_content, output, error, image_batches, returned>>

\* After the loop: deduplicate, cut and return.
WebSearchReturn ==
    /\ pc = "web_search_topics"
    /\ i > Len(TextTopicList(headlines))
    /\ unique_results' = UniqueResults(search_results)
    /\ Return("web_search")
    /\ UNCHANGED <<entry, query, response, headlines, printed, search_results,
                   main_images, images, content_response, course_content,
                   output, i, calls, text_batches, image_batches>>

\* ddgs.text raises and web_search goes on with no results for that call.
TextSearchFailsCaught ==
    /\ \/ pc = "web_search"
       \/ pc = "web_search_topics" /\ i <= Len(TextTopicList(headlines))
    /\ calls' =
        Append(calls,
               IF pc = "web_search"
               THEN TextCall(query, MainTextResults, "SearchBackendError")
               ELSE TextCall(SpecificQuery(query, TextTopicList(headlines)[i]),
                             TopicTextResults, "SearchBackendError"))
    /\ pc' = "web_search_topics"
    /\ i' = IF pc = "web_search" THEN 1 ELSE i + 1
    /\ UNCHANGED <<entry, query, response, headlines, printed, search_results,
                   unique_results, main_images, images, content_response,
                   course_content, output, error, text_batches, image_batches,
                   returned>>

\* ddgs.text raises.
TextSearchFails ==
    /\ \/ pc = "web_search"
       \/ pc = "web_search_topics" /\ i <= Len(TextTopicList(headlines))
    /\ calls' =
        Append(calls,
               IF pc = "web_search"
               THEN TextCall(query, MainTextResults, "SearchBackendError")
               ELSE TextCall(SpecificQuery(query, TextTopicList(headlines)[i]),
                             TopicTextResults, "SearchBackendError"))
    /\ Raise("SearchBackendError")
    /\ UNCHANGED <<entry, query, response, headlines, printed, search_results,
                   unique_results, main_images, images, content_response,
                   course_content, output, i, text_batches, image_batches,
                   returned>>

(***************************************************************************)
(* retrieve_images.                                                        *)
(***************************************************************************)
\* headlines["main_headline"] of the first print, with the key absent.
RetrieveImagesKeyError ==
    /\ pc = "retrieve_images"
    /\ "main_headline" \notin DOMAIN headlines
    /\ Raise("KeyError")
    /\ UNCHANGED <<entry, query, response, headlines, printed, search_results,
                   unique_results, main_images, images, content_response,
                   course_content, output, i, calls, text_batches,
                   image_batches, returned>>

\* The search for the main headline.
ImageSearchMain ==
    /\ pc = "retrieve_images"
    /\ "main_headline" \in DOMAIN headlines
    /\ \E batch \in ImageBatches :
        /\ calls' =
            Append(calls,
                   ImagesCall(MainImageQuery(headlines), MainImageResults, "ok"))
        /\ image_batches' = Append(image_batches, batch)
        /\ main_images' = batch
    /\ pc' = "retrieve_images_topics"
    /\ i' = 1
    /\ UNCHANGED <<entry, query, response, headlines, printed, search_results,
                   unique_results, images, content_response, course_content,
                   output, error, text_batches, returned>>

\* One turn of the loop over the first topics.
ImageSearchTopic ==
    /\ pc = "retrieve_images_topics"
    /\ i <= Len(ImageTopicList(headlines))
    /\ \E batch \in ImageBatches :
        /\ calls' =
            Append(calls,
                   ImagesCall(TopicImageQuery(query, ImageTopicList(headlines)[i]),
                              TopicImageResults, "ok"))
        /\ image_batches' = Append(image_batches, batch)
        /\ main_images' = main_images \o batch
    /\ i' = i + 1
    /\ UNCHANGED <<pc, entry, query, response, headlines, printed,
                   search_results, unique_results, images, content_response,
                   course_content, output, error, text_batches, returned>>

\* After the loop: project the first raw results and return.
RetrieveImagesReturn ==
    /\ pc = "retrieve_images_topics"
    /\ i > Len(ImageTopicList(headlines))
    /\ images' = ProcessImages(main_images, query)
    /\ Return("retrieve_images")
    /\ UNCHANGED <<entry, query, response, headlines, printed, search_results,
                   unique_results, main_images, content_response,
                   course_content, output, i, calls, text_batches,
                   image_batches>>

\* ddgs.images raises.
ImageSearchFails ==
    /\ \/ pc = "retrieve_images" /\ "main_headline" \in DOMAIN headlines
       \/ pc = "retrieve_images_topics" /\ i <= Len(ImageTopicList(headlines))
    /\ calls' =
        Append(calls,
               IF pc = "retrieve_images"
               THEN ImagesCall(MainImageQuery(headlines), MainImageResults,
                               "SearchBackendError")
               ELSE ImagesCall(TopicImageQuery(query, ImageTopicList(headlines)[i]),
                               TopicImageResults, "SearchBackendError"))
    /\ Raise("SearchBackendError")
    /\ UNCHANGED <<entry, query, response, headlines, printed, search_results,
                   unique_results, main_images, images, content_response,
                   course_content, output, i, text_batches, image_batches,
                   returned>>

(***************************************************************************)
(* generate_course_content and the end of process_query.                   *)
(***************************************************************************)
\* The prompt is built, the model answers, the placeholders are replaced.
GenerateCourseContent ==
    /\ pc = "generate_course_content"
    /\ \E text \in ContentTexts :
        /\ calls' =
            Append(calls,
                   GenerateCall(CoursePrompt(query, headlines, unique_results,
                                             images), "ok"))
        /\ content_response' = text
        /\ course_content' = ReplaceImages(text, images)
    /\ Return("generate_course_content")
    /\ UNCHANGED <<entry, query, response, headlines, printed, search_results,
                   unique_results, main_images, images, output, i,
                   text_batches, image_batches>>

\* The output record of process_query.
AssembleOutput ==
    /\ pc = "assemble_output"
    /\ output' =
        [query |-> query, headlines |-> headlines,
         course_content |-> course_content, images |-> images]
    /\ pc' = "DONE"
    /\ UNCHANGED <<entry, query, response, headlines, printed, search_results,
                   unique_results, main_images, images, content_response,
                   course_content, error, i, calls, text_batches,
                   image_batches, returned>>

(***************************************************************************)
(* Specifications: a run of process_query, and direct calls of each        *)
(* method with arguments of the caller's choice.                           *)
(***************************************************************************)
Fresh ==
    /\ response = <<>>
    /\ printed = <<>>
    /\ search_results = <<>>
    /\ unique_results = <<>>
    /\ main_images = <<>>
    /\ content_response = <<>>
    /\ course_content = <<>>
    /\ output = None
    /\ error = NoError
    /\ i = 0
    /\ calls = <<>>
    /\ text_batches = <<>>
    /\ image_batches = <<>>
    /\ returned = <<>>

\* process_query(query)
Init ==
    /\ entry = "process_query"
    /\ pc = "generate_headlines"
    /\ query \in Queries
    /\ headlines = None
    /\ images = <<>>
    /\ Fresh

Next ==
    \/ GenerateHeadlines
    \/ ModelFails
    \/ TextSearchMain
    \/ TextSearchTopic
    \/ WebSearchReturn
    \/ TextSearchFails
    \/ RetrieveImagesKeyError
    \/ ImageSearchMain
    \/ ImageSearchTopic
    \/ RetrieveImagesReturn
    \/ ImageSearchFails
    \/ GenerateCourseContent
    \/ AssembleOutput

Spec == Init /\ [][Next]_vars

\* generate_headlines(query)
InitHeadlines ==
    /\ entry = "generate_headlines"
    /\ pc = "generate_headlines"
    /\ query \in Queries
    /\ headlines = None
    /\ images = <<>>
    /\ Fresh

NextHeadlines == GenerateHeadlines \/ ModelFails

SpecHeadlines == InitHeadlines /\ [][NextHeadlines]_vars

\* web_search(query, headlines)
InitSearch ==
    /\ entry = "web_search"
    /\ pc = "web_search"
    /\ query \in Queries
    /\ headlines \in Outlines
    /\ images = <<>>
    /\ Fresh

NextSearch ==
    TextSearchMain \/ TextSearchTopic \/ WebSearchReturn \/ TextSearchFails

SpecSearch == InitSearch /\ [][NextSearch]_vars

\* retrieve_images(query, headlines)
InitImages ==
    /\ entry = "retrieve_images"
    /\ pc = "retrieve_images"
    /\ query \in Queries
    /\ headlines \in Outlines
    /\ images = <<>>
    /\ Fresh

NextImages ==
    \/ RetrieveImagesKeyError
    \/ ImageSearchMain
    \/ ImageSearchTopic
    \/ RetrieveImagesReturn
    \/ ImageSearchFails

SpecImages == InitImages /\ [][NextImages]_vars

\* generate_course_content(query, headlines, search_results, images)
InitContent ==
    /\ entry = "generate_course_content"
    /\ pc = "generate_course_content"
    /\ query \in Queries
    /\ headlines \in {OutlineOf(TRUE, TRUE, 1, 0), OutlineOf(FALSE, FALSE, 0, 0)}
    /\ images \in SeqsUpTo(ImageRecords, MaxImageRecords)
    /\ Fresh

NextContent == GenerateCourseContent \/ ModelFails

SpecContent == InitContent /\ [][NextContent]_vars

(***************************************************************************)
(* Properties.                                                             *)
(***************************************************************************)
StageOrder ==
    <<"generate_headlines", "web_search", "retrieve_images",
      "generate_course_content">>

\* The pipeline state a position of process_query stands for.
PipelineState ==
    CASE pc = "generate_headlines" -> "START"
      [] pc \in {"web_search", "web_search_topics"} -> "OUTLINE_GENERATED"
      [] pc \in {"retrieve_images", "retrieve_images_topics"} -> "EVIDENCE_RETRIEVED"
      [] pc = "generate_course_content" -> "IMAGES_RETRIEVED"
      [] pc = "assemble_output" -> "CONTENT_SYNTHESIZED"
      [] pc = "DONE" -> "DONE"
      [] OTHER -> "FAILED"

StateRank(st) ==
    CASE st = "START" -> 0
      [] st = "OUTLINE_GENERATED" -> 1
      [] st = "EVIDENCE_RETRIEVED" -> 2
      [] st = "IMAGES_RETRIEVED" -> 3
      [] st = "CONTENT_SYNTHESIZED" -> 4
      [] st = "DONE" -> 5
      [] OTHER -> 6

\* The number of occurrences of sub in s.
Count(s, sub) ==
    Cardinality({k \in 0..(Len(s) - Len(sub)) : SubSeq(s, k + 1, k + Len(sub)) = sub})

Range(s) == {s[k] : k \in DOMAIN s}

ImageIds(imgs) == {imgs[k].id : k \in DOMAIN imgs}

\* The stages that have returned are the first stages, each once and in
\* order, and the state is the one after the last of them.
StagesInOrder ==
    /\ Len(returned) <= 4
    /\ returned = SubSeq(StageOrder, 1, Len(returned))
    /\ PipelineState # "FAILED" =>
        StateRank(PipelineState) = IF pc = "DONE" THEN 5 ELSE Len(returned)
    /\ pc = "DONE" =>
        /\ Len(returned) = 4
        /\ output = [query |-> query, headlines |-> headlines,
                     course_content |-> course_content, images |-> images]

\* A step keeps the state, moves it to the next state as the stage that
\* ends the current state returns, or fails.
StageStep ==
    \/ PipelineState' = PipelineState /\ returned' = returned
    \/ /\ PipelineState # "FAILED"
       /\ PipelineState' = "FAILED"
       /\ returned' = returned
    \/ /\ StateRank(PipelineState) < 4
       /\ StateRank(PipelineState') = StateRank(PipelineState) + 1
       /\ returned' = Append(returned, StageOrder[StateRank(PipelineState) + 1])
    \/ /\ PipelineState = "CONTENT_SYNTHESIZED"
       /\ PipelineState' = "DONE"
       /\ returned' = returned

CallStage(c) ==
    CASE c.api = "text" -> "web_search"
      [] c.api = "images" -> "retrieve_images"
      [] c.api = "generate_content" /\ c.prompt.kind = "syllabus" -> "generate_headlines"
      [] OTHER -> "generate_course_content"

\* The first occurrence of open in text and what follows it up to the next
\* fence (or the end), stripped.
BlockInterior(text, open) ==
    LET rest == SubSeq(text, Find(text, open) + Len(open), Len(text))
        e == Find(rest, Fence)
    IN  Strip(IF e = 0 THEN rest ELSE SubSeq(rest, 1, e - 1))

Failure == [ok |-> FALSE, value |-> None]

\* The four attempts of the parsing strategy on a response text.
AttemptRaw(text) == JsonLoads(text)
AttemptJsonBlock(text) ==
    IF Contains(text, JsonFence) THEN JsonLoads(BlockInterior(text, JsonFence))
    ELSE Failure
AttemptAnyBlock(text) ==
    IF Contains(text, Fence) THEN JsonLoads(BlockInterior(text, Fence))
    ELSE Failure

\* The outline response arrived and no parse of it succeeded.
OutlineParseFailed ==
    /\ calls # <<>>
    /\ calls[1].outcome = "ok"
    /\ CallStage(calls[1]) = "generate_headlines"
    /\ ~AttemptRaw(response).ok
    /\ ~AttemptJsonBlock(response).ok
    /\ ~AttemptAnyBlock(response).ok

\* C2: when an external call (model generate, text search, image search) or
\* the outline parse fails, the run is in the terminal FAILED state: the
\* same error has reached the caller, the failing call is the last call any
\* collaborator received (no retry, no later call), the stage it belongs to
\* and the later stages have not returned, and there is no output.
C2_FailureAborts ==
    /\ \A k \in DOMAIN calls :
        calls[k].outcome # "ok" =>
            /\ k = Len(calls)
            /\ pc = "FAILED"
            /\ error = calls[k].outcome
            /\ output = None
            /\ Len(returned) < 4
            /\ StageOrder[Len(returned) + 1] = CallStage(calls[k])
    /\ OutlineParseFailed =>
        /\ Len(calls) = 1
        /\ pc = "FAILED"
        /\ error = "JSONDecodeError"
        /\ output = None
        /\ returned = <<>>
    /\ pc = "FAILED" => output = None /\ error # NoError

C2_Witness ==
    /\ pc = "FAILED"
    /\ Len(calls) = 4
    /\ calls[4].api = "text"
    /\ calls[4].outcome = "SearchBackendError"

\* A run that failed in the parse of the outline response.
C2_WitnessParse == OutlineParseFailed /\ pc = "FAILED"

\* The indices of the first occurrence of each href.
FirstOccurrences(all) ==
    {k \in DOMAIN all : \A j \in 1..(k - 1) : all[j].href # all[k].href}

\* The n-th smallest element of a set of numbers.
Nth(S, n) == CHOOSE k \in S : Cardinality({j \in S : j < k}) = n - 1

\* The first 10 first occurrences, in order.
FirstTenUnique(all) ==
    [n \in 1..Min(10, Cardinality(FirstOccurrences(all))) |->
        all[Nth(FirstOccurrences(all), n)]]

\* C3: web_search returns exactly the first 10 items of the concatenation of
\* the batches in issue order with only the first occurrence of each href
\* kept; so no two returned items share an href, and at most 10 are returned.
C3_DedupFirstTen ==
    (pc = "RETURNED" /\ entry = "web_search") =>
        /\ unique_results = FirstTenUnique(Flatten(text_batches))
        /\ Len(unique_results) <= 10
        /\ \A a, b \in DOMAIN unique_results :
            a # b => unique_results[a].href # unique_results[b].href

C3_Witness ==
    /\ pc = "RETURNED"
    /\ entry = "web_search"
    /\ Len(unique_results) = 10
    /\ Cardinality(FirstOccurrences(Flatten(text_batches))) > 10
    /\ Cardinality(FirstOccurrences(Flatten(text_batches)))
        < Len(Flatten(text_batches))
    /\ \E b \in Range(text_batches) : Len(b) > 5

\* C4: retrieve_images returns N = min(4, number of concatenated raw
\* results) records with ids 1..N in order, record k being the projection of
\* the k-th raw result of the concatenation in issue order, nothing dropped
\* as a duplicate.
C4_DenseIds ==
    (pc = "RETURNED" /\ entry = "retrieve_images") =>
        LET raw == Flatten(image_batches)
        IN  /\ Len(images) = Min(4, Len(raw))
            /\ \A k \in 1..Len(images) :
                /\ images[k].id = k
                /\ images[k].url = raw[k].image
                /\ images[k].title =
                    IF "title" \in DOMAIN raw[k] THEN raw[k].title
                    ELSE ImageRelatedTo \o query
                /\ images[k].source =
                    IF "url" \in DOMAIN raw[k] THEN raw[k].url ELSE <<>>

C4_Witness ==
    /\ pc = "RETURNED"
    /\ entry = "retrieve_images"
    /\ Len(Flatten(image_batches)) > 4
    /\ Len(images) = 4
    /\ \E a, b \in DOMAIN images : a # b /\ images[a].url = images[b].url

StartsWith(s, prefix) == Len(s) >= Len(prefix) /\ SubSeq(s, 1, Len(prefix)) = prefix

\* No title or url can make part of a placeholder.
PlainImages(imgs) ==
    \A k \in DOMAIN imgs :
        /\ "!" \notin Range(imgs[k].title)
        /\ "!" \notin Range(imgs[k].url)
        /\ ~StartsWith(imgs[k].title, <<"I", "M", "A", "G", "E", " ">>)

\* The first record of imgs with the id.
FirstWithId(imgs, id) ==
    imgs[CHOOSE k \in DOMAIN imgs :
            imgs[k].id = id /\ \A j \in 1..(k - 1) : imgs[j].id # id]

C6_NoMissingFieldError == IsDict(headlines) => error # "KeyError"

\* The value of the first attempt that parsed, in the order raw text, json
\* block, any block, raw text.
FirstOfFour(text) ==
    IF AttemptRaw(text).ok THEN AttemptRaw(text)
    ELSE IF AttemptJsonBlock(text).ok THEN AttemptJsonBlock(text)
    ELSE IF AttemptAnyBlock(text).ok THEN AttemptAnyBlock(text)
    ELSE AttemptRaw(text)

\* generate_headlines ended as the attempt did: returned its value, or
\* failed with the parse error.
EndedAs(attempt) ==
    IF attempt.ok
    THEN pc = "RETURNED" /\ headlines = attempt.value /\ error = NoError
    ELSE pc = "FAILED" /\ error = "JSONDecodeError"

HeadlinesAnswered ==
    /\ entry = "generate_headlines"
    /\ calls # <<>>
    /\ calls[1].outcome = "ok"

SecondAttempt(text) ==
    IF Contains(text, JsonFence) THEN AttemptJsonBlock(text)
    ELSE IF Contains(text, Fence) THEN AttemptAnyBlock(text)
    ELSE AttemptRaw(text)

DocumentOf(text) == (CHOOSE t \in Range(text) : "doc" \in DOMAIN t).doc

\* C8: a response that parsed is returned by generate_headlines as parsed,
\* conforming or not; a violation of the schema is only printed, is no
\* error of the run, and the pipeline goes on to the evidence stage.
C8_SoftGate ==
    (calls # <<>> /\ calls[1].outcome = "ok" /\ ~OutlineParseFailed) =>
        /\ headlines = DocumentOf(response)
        /\ returned # <<>>
        /\ returned[1] = "generate_headlines"
        /\ printed =
            <<IF Conforms(headlines) THEN "JSON validation successful!"
              ELSE "JSON validation error">>
        /\ error # "ValidationError"
        /\ Len(calls) = 1 => pc = "web_search"
        /\ pc = "DONE" => output.headlines = DocumentOf(response)

C8_Witness ==
    /\ ~Conforms(headlines)
    /\ IsDict(headlines)
    /\ printed = <<"JSON validation error">>
    /\ Len(calls) >= 2
    /\ calls[2].api = "text"
    /\ calls[2].outcome = "ok"

\* C9: every placeholder of the response whose id matches no passed image is
\* still in the returned content, and raises no error.
C9_UnmatchedKept ==
    (pc = "RETURNED" /\ entry = "generate_course_content") =>
        /\ error = NoError
        /\ \A k \in (1..9) \ ImageIds(images) :
            Count(course_content, ImgPlaceholder(k))
                >= Count(content_response, ImgPlaceholder(k))

C9_Witness ==
    /\ pc = "RETURNED"
    /\ entry = "generate_course_content"
    /\ images # <<>>
    /\ \E k \in (1..9) \ ImageIds(images) :
        /\ Contains(content_response, ImgPlaceholder(k))
        /\ \E j \in ImageIds(images) : Contains(content_response, ImgPlaceholder(j))

IsSearchCall(c) == c.api \in {"text", "images"}

TopicsOf(h) == IF "topics" \in DOMAIN h THEN h.topics ELSE <<>>

HeadlineOf(topic) == IF "headline" \in DOMAIN topic THEN topic.headline ELSE <<>>

\* The calls the claim lists, for a query and an outline of n topics.
ExpectedSearchCalls(q, h) ==
    LET topics == TopicsOf(h)
        n == Len(topics)
    IN  <<[api |-> "text", query |-> q, max_results |-> 5, outcome |-> "ok"]>>
        \o [k \in 1..Min(3, n) |->
                [api |-> "text", query |-> q \o <<" ">> \o HeadlineOf(topics[k]),
                 max_results |-> 2, outcome |-> "ok"]]
        \o <<[api |-> "images",
              query |-> h.main_headline \o DiagramEducational,
              max_results |-> 2, outcome |-> "ok"]>>
        \o [k \in 1..Min(2, n) |->
                [api |-> "images",
                 query |-> HeadlineOf(topics[k]) \o <<" ">> \o q \o Illustration,
                 max_results |-> 1, outcome |-> "ok"]]

\* C10: in a successful run with an outline of n topics the search
\* collaborator receives exactly: the text search for the query (5), then
\* min(3, n) text searches "{query} {headline}" (2) in outline order, then
\* the image search "{main_headline} diagram educational" (2), then
\* min(2, n) image searches "{headline} {query} illustration" (1) in outline
\* order; every text search precedes every image search.
C10_SearchCalls ==
    pc = "DONE" => SelectSeq(calls, IsSearchCall) = ExpectedSearchCalls(query, headlines)

C10_Witness ==
    /\ pc = "DONE"
    /\ Len(TopicsOf(headlines)) = 4
    /\ Len(SelectSeq(calls, IsSearchCall)) = 7

\* A completed run with no topic: one text search and one image search.
C10_WitnessNoTopics ==
    /\ pc = "DONE"
    /\ Len(TopicsOf(headlines)) = 0
    /\ Len(SelectSeq(calls, IsSearchCall)) = 2

====
